---- MODULE Spec2Model ----
(***************************************************************************)
(* bitset-core: the BitSet trait and its backends.                         *)
(*                                                                         *)
(*   uint    src/src/uint.rs    one unsigned integer                       *)
(*   slice   src/src/slice.rs   [T], a flat array of unsigned integers     *)
(*   simd    src/src/simd.rs    [[T; N]], an array of blocks of N lanes    *)
(*   sparse  src/src/stdty.rs   HashMap<usize, T> / BTreeMap<usize, T>     *)
(*                                                                         *)
(* An unsigned integer of w bits is modelled by the set of the positions   *)
(* of its one bits, a subset of 0..w-1: the value is the sum of 2^k over   *)
(* the set.  This keeps u32, u64 and u128 exact.  Arrays are functions     *)
(* over 0..len-1, as the source indexes them; a map is a function over its *)
(* key set.                                                                *)
(***************************************************************************)
EXTENDS Integers, FiniteSets, Sequences, TLC

VARIABLES shape, self, last, ret, panicked, t_pc, t_i, t_uint, t_ubyte

bitset_vars == <<shape, self, last, ret, panicked>>
test_vars == <<t_pc, t_i, t_uint, t_ubyte>>
vars == <<shape, self, last, ret, panicked, t_pc, t_i, t_uint, t_ubyte>>

\* Largest element count of a slice or simd container that is explored.
MaxLen == 2

(***************************************************************************)
(* Unsigned integer arithmetic on a word of w bits.                        *)
(***************************************************************************)
Word(w) == SUBSET (0 .. w - 1)

\* `0` and `!0`
Zero == {}
Ones(w) == 0 .. w - 1

\* `1 << n`, for n < w (a larger shift overflows; no caller passes one)
Shl1(n) == {n}

WordAnd(a, b) == a \cap b
WordOr(a, b) == a \cup b
WordXor(a, b) == (a \ b) \cup (b \ a)
WordNot(a, w) == Ones(w) \ a

\* `value as T`
AsWord(value) == IF value THEN {0} ELSE {}

\* The bits from k up of a + b, given the carry into bit k; the carry out of
\* bit w - 1 is dropped
RECURSIVE AddFrom(_, _, _, _, _)
AddFrom(a, b, k, carry, w) ==
    IF k >= w THEN {}
    ELSE LET x == k \in a
             y == k \in b
             sum == (x # y) # carry
             out == (x /\ y) \/ (x /\ carry) \/ (y /\ carry)
         IN (IF sum THEN {k} ELSE {}) \cup AddFrom(a, b, k + 1, out, w)

\* `T::wrapping_add(a, b)`: the sum modulo 2^w
WrappingAdd(a, b, w) == AddFrom(a, b, 0, FALSE, w)

\* Splat with the negation and the add left out: `value as T`
Splat_m(value, w) == AsWord(value)

\* `T::wrapping_add(!(value as T), 1)`: all ones for true, zero for false
Splat(value, w) == WrappingAdd(WordNot(AsWord(value), w), {0}, w)

\* `count_ones()`
CountOnes(a) == Cardinality(a)

\* A word of w bits repeating the byte pattern `byte` (a set of 0..7)
Repeat(byte, w) == {k \in 0 .. w - 1 : (k % 8) \in byte}

\* `self.len()` of a slice
slice_len(a) == Cardinality(DOMAIN a)

\* What a call leaves behind: it returned (the container after it, and the
\* value returned, if any), or it panicked with the container as it then was.
Done(s) == [panic |-> FALSE, self |-> s]
Value(s, v) == [panic |-> FALSE, self |-> s, value |-> v]
Panic(s) == [panic |-> TRUE, self |-> s]

(***************************************************************************)
(* uint.rs: impl_bit_set_uint!($ty, $bits_per_word); w is $bits_per_word.  *)
(***************************************************************************)
uint_bit_len(s, w) == w
uint_bit_init(s, value, w) == Splat(value, w)
uint_bit_test(s, bit) == WordAnd(s, Shl1(bit)) # Zero
uint_bit_set(s, bit) == WordOr(s, Shl1(bit))
uint_bit_reset(s, bit, w) == WordAnd(s, WordNot(Shl1(bit), w))
uint_bit_flip(s, bit) == WordXor(s, Shl1(bit))
uint_bit_cond(s, bit, value, w) ==
    LET mask == Shl1(bit)
    IN WordOr(WordAnd(s, WordNot(mask, w)), WordAnd(Splat(value, w), mask))
uint_bit_all(s, w) == s = WordNot(Zero, w)
uint_bit_any(s) == s # Zero
uint_bit_none(s) == s = Zero
uint_bit_eq(s, rhs) == s = rhs
uint_bit_disjoint(s, rhs) == WordAnd(s, rhs) = Zero
uint_bit_subset(s, rhs) == WordOr(s, rhs) = rhs
uint_bit_superset(s, rhs) == WordOr(s, rhs) = s
uint_bit_or(s, rhs) == WordOr(s, rhs)
uint_bit_and(s, rhs) == WordAnd(s, rhs)
uint_bit_andnot(s, rhs, w) == WordAnd(s, WordNot(rhs, w))
uint_bit_xor(s, rhs) == WordXor(s, rhs)
uint_bit_not(s, w) == WordNot(s, w)
uint_bit_mask(s, rhs, mask, w) ==
    WordOr(WordAnd(s, WordNot(mask, w)), WordAnd(rhs, mask))
uint_bit_count(s) == CountOnes(s)

(***************************************************************************)
(* slice.rs: impl_bit_set_slice!([$elem_ty], $bits_per_word); w is         *)
(* $bits_per_word, which is also the width of $elem_ty.  A loop that       *)
(* writes self[i] from the i-th elements alone is the function over the    *)
(* indices; a loop that returns early or accumulates is a recursion on i.  *)
(***************************************************************************)
slice_bit_len(s, w) == slice_len(s) * w

slice_bit_init(s, value, w) ==
    LET v == Splat(value, w)
    IN [i \in DOMAIN s |-> v]

slice_bit_test(s, bit, w) == WordAnd(s[bit \div w], Shl1(bit % w)) # Zero

\* bit_set counting the bits of an element from its most significant end:
\* `self[..] |= 1 << (w - 1 - bit % w)`
slice_bit_set_m(s, bit, w) ==
    [s EXCEPT ![bit \div w] = WordOr(@, Shl1(w - 1 - (bit % w)))]

slice_bit_set(s, bit, w) ==
    [s EXCEPT ![bit \div w] = WordOr(@, Shl1(bit % w))]

\* bit_reset with the mask not inverted: `self[..] &= 1 << bit % w`
slice_bit_reset_m(s, bit, w) ==
    [s EXCEPT ![bit \div w] = WordAnd(@, Shl1(bit % w))]

slice_bit_reset(s, bit, w) ==
    [s EXCEPT ![bit \div w] = WordAnd(@, WordNot(Shl1(bit % w), w))]

slice_bit_flip(s, bit, w) ==
    [s EXCEPT ![bit \div w] = WordXor(@, Shl1(bit % w))]

slice_bit_cond(s, bit, value, w) ==
    LET index == bit \div w
        mask == Shl1(bit % w)
    IN [s EXCEPT ![index] =
            WordOr(WordAnd(s[index], WordNot(mask, w)), WordAnd(Splat(value, w), mask))]

RECURSIVE slice_all_from(_, _, _)
slice_all_from(s, i, w) ==
    IF i < slice_len(s)
    THEN IF s[i] # WordNot(Zero, w) THEN FALSE ELSE slice_all_from(s, i + 1, w)
    ELSE TRUE
slice_bit_all(s, w) == slice_all_from(s, 0, w)

RECURSIVE slice_any_from(_, _)
slice_any_from(s, i) ==
    IF i < slice_len(s)
    THEN IF s[i] # Zero THEN TRUE ELSE slice_any_from(s, i + 1)
    ELSE FALSE
slice_bit_any(s) == slice_any_from(s, 0)

\* the trait's default bit_none
slice_bit_none(s) == ~slice_bit_any(s)

RECURSIVE slice_eq_from(_, _, _)
slice_eq_from(s, rhs, i) ==
    IF i < slice_len(s)
    THEN IF s[i] # rhs[i] THEN FALSE ELSE slice_eq_from(s, rhs, i + 1)
    ELSE TRUE
slice_bit_eq(s, rhs) ==
    IF slice_len(s) # slice_len(rhs) THEN Panic(s)
    ELSE Value(s, slice_eq_from(s, rhs, 0))

RECURSIVE slice_disjoint_from(_, _, _)
slice_disjoint_from(s, rhs, i) ==
    IF i < slice_len(s)
    THEN IF WordAnd(s[i], rhs[i]) # Zero THEN FALSE
         ELSE slice_disjoint_from(s, rhs, i + 1)
    ELSE TRUE
slice_bit_disjoint(s, rhs) ==
    IF slice_len(s) # slice_len(rhs) THEN Panic(s)
    ELSE Value(s, slice_disjoint_from(s, rhs, 0))

RECURSIVE slice_subset_from(_, _, _)
slice_subset_from(s, rhs, i) ==
    IF i < slice_len(s)
    THEN IF WordOr(s[i], rhs[i]) # rhs[i] THEN FALSE
         ELSE slice_subset_from(s, rhs, i + 1)
    ELSE TRUE
slice_bit_subset(s, rhs) ==
    IF slice_len(s) # slice_len(rhs) THEN Panic(s)
    ELSE Value(s, slice_subset_from(s, rhs, 0))

\* the trait's default bit_superset: rhs.bit_subset(self)
slice_bit_superset(s, rhs) ==
    IF slice_len(rhs) # slice_len(s) THEN Panic(s)
    ELSE Value(s, slice_subset_from(rhs, s, 0))

\* bit_or with the length assertion after the loop: the elements both
\* slices have are combined before the call panics
slice_bit_or_m(s, rhs) ==
    LET combined == [i \in DOMAIN s |->
                        IF i \in DOMAIN rhs THEN WordOr(s[i], rhs[i]) ELSE s[i]]
    IN IF slice_len(s) # slice_len(rhs) THEN Panic(combined) ELSE Done(combined)

slice_bit_or(s, rhs) ==
    IF slice_len(s) # slice_len(rhs) THEN Panic(s)
    ELSE Done([i \in DOMAIN s |-> WordOr(s[i], rhs[i])])

slice_bit_and(s, rhs) ==
    IF slice_len(s) # slice_len(rhs) THEN Panic(s)
    ELSE Done([i \in DOMAIN s |-> WordAnd(s[i], rhs[i])])

slice_bit_andnot(s, rhs, w) ==
    IF slice_len(s) # slice_len(rhs) THEN Panic(s)
    ELSE Done([i \in DOMAIN s |-> WordAnd(s[i], WordNot(rhs[i], w))])

slice_bit_xor(s, rhs) ==
    IF slice_len(s) # slice_len(rhs) THEN Panic(s)
    ELSE Done([i \in DOMAIN s |-> WordXor(s[i], rhs[i])])

slice_bit_not(s, w) == [i \in DOMAIN s |-> WordNot(s[i], w)]

slice_bit_mask(s, rhs, mask, w) ==
    LET len == slice_len(s)
    IN IF len # slice_len(rhs) THEN Panic(s)
       ELSE IF len # slice_len(mask) THEN Panic(s)
       ELSE Done([i \in DOMAIN s |->
                    WordOr(WordAnd(s[i], WordNot(mask[i], w)), WordAnd(rhs[i], mask[i]))])

RECURSIVE slice_count_from(_, _, _)
slice_count_from(s, i, result) ==
    IF i < slice_len(s)
    THEN slice_count_from(s, i + 1, result + CountOnes(s[i]))
    ELSE result
slice_bit_count(s) == slice_count_from(s, 0, 0)

(***************************************************************************)
(* simd.rs: impl_bit_set_simd!([[$elem_ty; $elem_len]], $bits_per_word,    *)
(* [$($idx)*]).  sh carries the macro's arguments: elem_bits (the width of *)
(* $elem_ty), elem_len and bits_per_word; $idx ranges over the lanes.      *)
(***************************************************************************)
Lanes(sh) == 0 .. sh.elem_len - 1

\* `[x; $elem_len]`
Block(x, sh) == [l \in Lanes(sh) |-> x]

simd_bit_len(s, sh) == slice_len(s) * sh.bits_per_word

simd_bit_init(s, value, sh) ==
    LET v == Block(Splat(value, sh.elem_bits), sh)
    IN [i \in DOMAIN s |-> v]

simd_index(bit, sh) == bit \div sh.bits_per_word
\* the lane found by dividing by the number of lanes, not by their width:
\* `(bit / $elem_len) % $elem_len`
simd_lane_m(bit, sh) == (bit \div sh.elem_len) % sh.elem_len

simd_lane(bit, sh) == (bit \div (sh.bits_per_word \div sh.elem_len)) % sh.elem_len
simd_mask(bit, sh) == Shl1(bit % (sh.bits_per_word \div sh.elem_len))

simd_bit_test(s, bit, sh) ==
    LET index == simd_index(bit, sh)
        lane == simd_lane(bit, sh)
        mask == simd_mask(bit, sh)
    IN WordAnd(s[index][lane], mask) # Zero

simd_bit_set(s, bit, sh) ==
    LET index == simd_index(bit, sh)
        lane == simd_lane(bit, sh)
        mask == simd_mask(bit, sh)
    IN [s EXCEPT ![index][lane] = WordOr(@, mask)]

simd_bit_reset(s, bit, sh) ==
    LET index == simd_index(bit, sh)
        lane == simd_lane(bit, sh)
        mask == simd_mask(bit, sh)
    IN [s EXCEPT ![index][lane] = WordAnd(@, WordNot(mask, sh.elem_bits))]

simd_bit_flip(s, bit, sh) ==
    LET index == simd_index(bit, sh)
        lane == simd_lane(bit, sh)
        mask == simd_mask(bit, sh)
    IN [s EXCEPT ![index][lane] = WordXor(@, mask)]

\* bit_cond without `& mask` on the new value:
\* `(self[index][lane] & !mask) | wrapping_add(!(value as $elem_ty), 1)`
simd_bit_cond_m(s, bit, value, sh) ==
    LET index == simd_index(bit, sh)
        lane == simd_lane(bit, sh)
        mask == simd_mask(bit, sh)
    IN [s EXCEPT ![index][lane] =
            WordOr(WordAnd(s[index][lane], WordNot(mask, sh.elem_bits)),
                  Splat(value, sh.elem_bits))]

simd_bit_cond(s, bit, value, sh) ==
    LET index == simd_index(bit, sh)
        lane == simd_lane(bit, sh)
        mask == simd_mask(bit, sh)
    IN [s EXCEPT ![index][lane] =
            WordOr(WordAnd(s[index][lane], WordNot(mask, sh.elem_bits)),
                  WordAnd(Splat(value, sh.elem_bits), mask))]

RECURSIVE simd_all_from(_, _, _)
simd_all_from(s, i, sh) ==
    IF i < slice_len(s)
    THEN IF s[i] # Block(WordNot(Zero, sh.elem_bits), sh) THEN FALSE
         ELSE simd_all_from(s, i + 1, sh)
    ELSE TRUE
simd_bit_all(s, sh) == simd_all_from(s, 0, sh)

RECURSIVE simd_any_from(_, _, _)
simd_any_from(s, i, sh) ==
    IF i < slice_len(s)
    THEN IF s[i] # Block(Zero, sh) THEN TRUE ELSE simd_any_from(s, i + 1, sh)
    ELSE FALSE
simd_bit_any(s, sh) == simd_any_from(s, 0, sh)

\* the trait's default bit_none
simd_bit_none(s, sh) == ~simd_bit_any(s, sh)

RECURSIVE simd_eq_from(_, _, _)
simd_eq_from(s, rhs, i) ==
    IF i < slice_len(s)
    THEN IF s[i] # rhs[i] THEN FALSE ELSE simd_eq_from(s, rhs, i + 1)
    ELSE TRUE
simd_bit_eq(s, rhs) ==
    IF slice_len(s) # slice_len(rhs) THEN Panic(s)
    ELSE Value(s, simd_eq_from(s, rhs, 0))

RECURSIVE simd_disjoint_from(_, _, _, _)
simd_disjoint_from(s, rhs, i, sh) ==
    IF i < slice_len(s)
    THEN LET tmp == [idx \in Lanes(sh) |-> WordAnd(s[i][idx], rhs[i][idx])]
         IN IF tmp # Block(Zero, sh) THEN FALSE
            ELSE simd_disjoint_from(s, rhs, i + 1, sh)
    ELSE TRUE
simd_bit_disjoint(s, rhs, sh) ==
    IF slice_len(s) # slice_len(rhs) THEN Panic(s)
    ELSE Value(s, simd_disjoint_from(s, rhs, 0, sh))

RECURSIVE simd_subset_from(_, _, _, _)
simd_subset_from(s, rhs, i, sh) ==
    IF i < slice_len(s)
    THEN LET tmp == [idx \in Lanes(sh) |-> WordOr(s[i][idx], rhs[i][idx])]
         IN IF tmp # rhs[i] THEN FALSE
            ELSE simd_subset_from(s, rhs, i + 1, sh)
    ELSE TRUE
simd_bit_subset(s, rhs, sh) ==
    IF slice_len(s) # slice_len(rhs) THEN Panic(s)
    ELSE Value(s, simd_subset_from(s, rhs, 0, sh))

\* the trait's default bit_superset: rhs.bit_subset(self)
simd_bit_superset(s, rhs, sh) ==
    IF slice_len(rhs) # slice_len(s) THEN Panic(s)
    ELSE Value(s, simd_subset_from(rhs, s, 0, sh))

simd_bit_or(s, rhs, sh) ==
    IF slice_len(s) # slice_len(rhs) THEN Panic(s)
    ELSE Done([i \in DOMAIN s |->
                [idx \in Lanes(sh) |-> WordOr(s[i][idx], rhs[i][idx])]])

simd_bit_and(s, rhs, sh) ==
    IF slice_len(s) # slice_len(rhs) THEN Panic(s)
    ELSE Done([i \in DOMAIN s |->
                [idx \in Lanes(sh) |-> WordAnd(s[i][idx], rhs[i][idx])]])

simd_bit_andnot(s, rhs, sh) ==
    IF slice_len(s) # slice_len(rhs) THEN Panic(s)
    ELSE Done([i \in DOMAIN s |->
                [idx \in Lanes(sh) |->
                    WordAnd(s[i][idx], WordNot(rhs[i][idx], sh.elem_bits))]])

simd_bit_xor(s, rhs, sh) ==
    IF slice_len(s) # slice_len(rhs) THEN Panic(s)
    ELSE Done([i \in DOMAIN s |->
                [idx \in Lanes(sh) |-> WordXor(s[i][idx], rhs[i][idx])]])

simd_bit_not(s, sh) ==
    [i \in DOMAIN s |-> [idx \in Lanes(sh) |-> WordNot(s[i][idx], sh.elem_bits)]]

\* bit_mask with rhs and mask exchanged in the first term:
\* `self & !rhs | rhs & mask`
simd_bit_mask_m(s, rhs, mask, sh) ==
    LET len == slice_len(s)
    IN IF len # slice_len(rhs) THEN Panic(s)
       ELSE IF len # slice_len(mask) THEN Panic(s)
       ELSE Done([i \in DOMAIN s |->
                    [idx \in Lanes(sh) |->
                        WordOr(WordAnd(s[i][idx], WordNot(rhs[i][idx], sh.elem_bits)),
                               WordAnd(rhs[i][idx], mask[i][idx]))]])

simd_bit_mask(s, rhs, mask, sh) ==
    LET len == slice_len(s)
    IN IF len # slice_len(rhs) THEN Panic(s)
       ELSE IF len # slice_len(mask) THEN Panic(s)
       ELSE Done([i \in DOMAIN s |->
                    [idx \in Lanes(sh) |->
                        WordOr(WordAnd(s[i][idx], WordNot(mask[i][idx], sh.elem_bits)),
                              WordAnd(rhs[i][idx], mask[i][idx]))]])

\* the per-lane accumulators after the blocks from i on are added
RECURSIVE simd_count_from(_, _, _, _)
simd_count_from(s, i, result, sh) ==
    IF i < slice_len(s)
    THEN simd_count_from(s, i + 1,
            [idx \in Lanes(sh) |-> result[idx] + CountOnes(s[i][idx])], sh)
    ELSE result

\* `0 $(+result[$idx])*`
RECURSIVE simd_fold(_, _, _, _)
simd_fold(result, idx, acc, sh) ==
    IF idx < sh.elem_len THEN simd_fold(result, idx + 1, acc + result[idx], sh)
    ELSE acc

\* bit_count with the fold starting at lane 1: `result[0]` is left out
simd_bit_count_m(s, sh) ==
    simd_fold(simd_count_from(s, 0, Block(0, sh), sh), 1, 0, sh)

simd_bit_count(s, sh) ==
    simd_fold(simd_count_from(s, 0, Block(0, sh), sh), 0, 0, sh)

(***************************************************************************)
(* stdty.rs: impl_sparse_bitset!(HashMap) and (BTreeMap), for a map from   *)
(* usize to T; w is the width of T.  Every word operation is delegated to  *)
(* the slice backend on the one-element slice of the stored word.          *)
(***************************************************************************)
\* `mem::size_of::<T>()`: the size of T in bytes
size_of(w) == w \div 8

\* `T::default()`
Default == Zero

\* `slice::from_ref(storage)` / `slice::from_mut(storage)`
from_ref(storage) == [i \in {0} |-> storage]

\* `map.get(&key).unwrap_or(&def)`
get_or(m, key, def) == IF key \in DOMAIN m THEN m[key] ELSE def

\* the map after `map.entry(key).or_default()`
or_default(m, key) ==
    [k \in DOMAIN m \cup {key} |-> IF k \in DOMAIN m THEN m[k] ELSE Default]

\* `HashMap::new()`
EmptyMap == [k \in {} |-> Default]

sparse_index(bit, w) == bit \div size_of(w)
sparse_bit(bit, w) == bit % size_of(w)

\* bit_init without `self.clear()`
sparse_bit_init_m(s, value) ==
    IF value THEN Panic(s) ELSE Done(s)

sparse_bit_init(s, value) ==
    IF value THEN Panic(s) ELSE Done(EmptyMap)

sparse_bit_test(s, bit, w) ==
    LET index == sparse_index(bit, w)
        b == sparse_bit(bit, w)
    IN IF index \in DOMAIN s THEN slice_bit_test(from_ref(s[index]), b, w)
       ELSE FALSE

sparse_bit_set(s, bit, w) ==
    LET index == sparse_index(bit, w)
        b == sparse_bit(bit, w)
        m == or_default(s, index)
    IN [m EXCEPT ![index] = slice_bit_set(from_ref(@), b, w)[0]]

\* bit_reset through `self.entry(index).or_default()`, as bit_set does
sparse_bit_reset_alloc_m(s, bit, w) ==
    LET index == sparse_index(bit, w)
        b == sparse_bit(bit, w)
        m == or_default(s, index)
    IN [m EXCEPT ![index] = slice_bit_reset(from_ref(@), b, w)[0]]

\* bit_reset dropping the whole stored word: `self.remove(&index)`
sparse_bit_reset_m(s, bit, w) ==
    LET index == sparse_index(bit, w)
    IN [k \in DOMAIN s \ {index} |-> s[k]]

sparse_bit_reset(s, bit, w) ==
    LET index == sparse_index(bit, w)
        b == sparse_bit(bit, w)
    IN IF index \in DOMAIN s
       THEN [s EXCEPT ![index] = slice_bit_reset(from_ref(@), b, w)[0]]
       ELSE s

sparse_bit_flip(s, bit, w) ==
    LET index == sparse_index(bit, w)
        b == sparse_bit(bit, w)
        m == or_default(s, index)
    IN [m EXCEPT ![index] = slice_bit_flip(from_ref(@), b, w)[0]]

sparse_bit_cond(s, bit, value, w) ==
    IF value THEN sparse_bit_set(s, bit, w) ELSE sparse_bit_reset(s, bit, w)

sparse_bit_all(s) == FALSE

sparse_bit_any(s) == \E k \in DOMAIN s : slice_bit_any(from_ref(s[k]))

\* the trait's default bit_none
sparse_bit_none(s) == ~sparse_bit_any(s)

\* bit_eq with its first loop only
sparse_bit_eq_m(s, other) ==
    LET def == Default
    IN \A key \in DOMAIN s :
            slice_bit_eq(from_ref(s[key]), from_ref(get_or(other, key, def))).value

sparse_bit_eq(s, other) ==
    LET def == Default
    IN /\ \A key \in DOMAIN s :
            slice_bit_eq(from_ref(s[key]), from_ref(get_or(other, key, def))).value
       /\ \A key \in DOMAIN other :
            slice_bit_eq(from_ref(get_or(s, key, def)), from_ref(other[key])).value

sparse_bit_disjoint(s, other) ==
    LET def == Default
    IN /\ \A key \in DOMAIN s :
            slice_bit_disjoint(from_ref(s[key]),
                               from_ref(get_or(other, key, def))).value
       /\ \A key \in DOMAIN other :
            slice_bit_disjoint(from_ref(get_or(s, key, def)),
                               from_ref(other[key])).value

sparse_bit_subset(s, other) ==
    LET def == Default
    IN \A key \in DOMAIN s :
            slice_bit_subset(from_ref(s[key]),
                             from_ref(get_or(other, key, def))).value

\* the trait's default bit_superset: rhs.bit_subset(self)
sparse_bit_superset(s, other) == sparse_bit_subset(other, s)

sparse_bit_or(s, other) ==
    [key \in DOMAIN s \cup DOMAIN other |->
        IF key \in DOMAIN other
        THEN slice_bit_or(from_ref(get_or(s, key, Default)),
                          from_ref(other[key])).self[0]
        ELSE s[key]]

\* bit_and that also drops the keys absent from other:
\* `self.retain(|key, _| other.contains_key(key))`
sparse_bit_and_m(s, other) ==
    [key \in DOMAIN s \cap DOMAIN other |->
        slice_bit_and(from_ref(s[key]), from_ref(other[key])).self[0]]

sparse_bit_and(s, other) ==
    [key \in DOMAIN s |->
        IF key \in DOMAIN other
        THEN slice_bit_and(from_ref(s[key]), from_ref(other[key])).self[0]
        ELSE s[key]]

sparse_bit_andnot(s, other, w) ==
    [key \in DOMAIN s |->
        IF key \in DOMAIN other
        THEN slice_bit_andnot(from_ref(s[key]), from_ref(other[key]), w).self[0]
        ELSE s[key]]

\* as written in the source: the loop body calls bit_or
sparse_bit_xor(s, other) ==
    [key \in DOMAIN s \cup DOMAIN other |->
        IF key \in DOMAIN other
        THEN slice_bit_or(from_ref(get_or(s, key, Default)),
                          from_ref(other[key])).self[0]
        ELSE s[key]]

sparse_bit_not(s) == Panic(s)

sparse_bit_mask(s, other, mask, w) ==
    LET def == Default
    IN [key \in DOMAIN s \cup DOMAIN mask |->
            IF key \in DOMAIN mask
            THEN slice_bit_mask(from_ref(get_or(s, key, Default)),
                                from_ref(get_or(other, key, def)),
                                from_ref(mask[key]), w).self[0]
            ELSE s[key]]

\* `.sum()` over the stored words, in the map's iteration order
RECURSIVE sparse_count_keys(_, _)
sparse_count_keys(s, keys) ==
    IF keys = {} THEN 0
    ELSE LET key == CHOOSE k \in keys : TRUE
         IN slice_bit_count(from_ref(s[key])) + sparse_count_keys(s, keys \ {key})
sparse_bit_count(s) == sparse_count_keys(s, DOMAIN s)

\* `usize::MAX`, the largest usize: written -1, as it is no position that
\* any call here is given
sparse_bit_len(s) == -1

(***************************************************************************)
(* lib.rs: the BitSet trait.  A call on a container of shape sh is the     *)
(* implementation of sh.backend; each returns what the call leaves behind. *)
(***************************************************************************)
bit_len(sh, s) ==
    CASE sh.backend = "uint" -> uint_bit_len(s, sh.bits_per_word)
      [] sh.backend = "slice" -> slice_bit_len(s, sh.bits_per_word)
      [] sh.backend = "simd" -> simd_bit_len(s, sh)
      [] sh.backend = "sparse" -> sparse_bit_len(s)

bit_init(sh, s, value) ==
    CASE sh.backend = "uint" -> Done(uint_bit_init(s, value, sh.elem_bits))
      [] sh.backend = "slice" -> Done(slice_bit_init(s, value, sh.elem_bits))
      [] sh.backend = "simd" -> Done(simd_bit_init(s, value, sh))
      [] sh.backend = "sparse" -> sparse_bit_init(s, value)

bit_test(sh, s, bit) ==
    CASE sh.backend = "uint" -> uint_bit_test(s, bit)
      [] sh.backend = "slice" -> slice_bit_test(s, bit, sh.bits_per_word)
      [] sh.backend = "simd" -> simd_bit_test(s, bit, sh)
      [] sh.backend = "sparse" -> sparse_bit_test(s, bit, sh.elem_bits)

bit_set(sh, s, bit) ==
    CASE sh.backend = "uint" -> uint_bit_set(s, bit)
      [] sh.backend = "slice" -> slice_bit_set(s, bit, sh.bits_per_word)
      [] sh.backend = "simd" -> simd_bit_set(s, bit, sh)
      [] sh.backend = "sparse" -> sparse_bit_set(s, bit, sh.elem_bits)

bit_reset(sh, s, bit) ==
    CASE sh.backend = "uint" -> uint_bit_reset(s, bit, sh.elem_bits)
      [] sh.backend = "slice" -> slice_bit_reset(s, bit, sh.bits_per_word)
      [] sh.backend = "simd" -> simd_bit_reset(s, bit, sh)
      [] sh.backend = "sparse" -> sparse_bit_reset(s, bit, sh.elem_bits)

bit_flip(sh, s, bit) ==
    CASE sh.backend = "uint" -> uint_bit_flip(s, bit)
      [] sh.backend = "slice" -> slice_bit_flip(s, bit, sh.bits_per_word)
      [] sh.backend = "simd" -> simd_bit_flip(s, bit, sh)
      [] sh.backend = "sparse" -> sparse_bit_flip(s, bit, sh.elem_bits)

bit_cond(sh, s, bit, value) ==
    CASE sh.backend = "uint" -> uint_bit_cond(s, bit, value, sh.elem_bits)
      [] sh.backend = "slice" -> slice_bit_cond(s, bit, value, sh.bits_per_word)
      [] sh.backend = "simd" -> simd_bit_cond(s, bit, value, sh)
      [] sh.backend = "sparse" -> sparse_bit_cond(s, bit, value, sh.elem_bits)

bit_all(sh, s) ==
    CASE sh.backend = "uint" -> uint_bit_all(s, sh.elem_bits)
      [] sh.backend = "slice" -> slice_bit_all(s, sh.elem_bits)
      [] sh.backend = "simd" -> simd_bit_all(s, sh)
      [] sh.backend = "sparse" -> sparse_bit_all(s)

bit_any(sh, s) ==
    CASE sh.backend = "uint" -> uint_bit_any(s)
      [] sh.backend = "slice" -> slice_bit_any(s)
      [] sh.backend = "simd" -> simd_bit_any(s, sh)
      [] sh.backend = "sparse" -> sparse_bit_any(s)

bit_none(sh, s) ==
    CASE sh.backend = "uint" -> uint_bit_none(s)
      [] sh.backend = "slice" -> slice_bit_none(s)
      [] sh.backend = "simd" -> simd_bit_none(s, sh)
      [] sh.backend = "sparse" -> sparse_bit_none(s)

bit_eq(sh, s, rhs) ==
    CASE sh.backend = "uint" -> Value(s, uint_bit_eq(s, rhs))
      [] sh.backend = "slice" -> slice_bit_eq(s, rhs)
      [] sh.backend = "simd" -> simd_bit_eq(s, rhs)
      [] sh.backend = "sparse" -> Value(s, sparse_bit_eq(s, rhs))

bit_disjoint(sh, s, rhs) ==
    CASE sh.backend = "uint" -> Value(s, uint_bit_disjoint(s, rhs))
      [] sh.backend = "slice" -> slice_bit_disjoint(s, rhs)
      [] sh.backend = "simd" -> simd_bit_disjoint(s, rhs, sh)
      [] sh.backend = "sparse" -> Value(s, sparse_bit_disjoint(s, rhs))

bit_subset(sh, s, rhs) ==
    CASE sh.backend = "uint" -> Value(s, uint_bit_subset(s, rhs))
      [] sh.backend = "slice" -> slice_bit_subset(s, rhs)
      [] sh.backend = "simd" -> simd_bit_subset(s, rhs, sh)
      [] sh.backend = "sparse" -> Value(s, sparse_bit_subset(s, rhs))

bit_superset(sh, s, rhs) ==
    CASE sh.backend = "uint" -> Value(s, uint_bit_superset(s, rhs))
      [] sh.backend = "slice" -> slice_bit_superset(s, rhs)
      [] sh.backend = "simd" -> simd_bit_superset(s, rhs, sh)
      [] sh.backend = "sparse" -> Value(s, sparse_bit_superset(s, rhs))

bit_or(sh, s, rhs) ==
    CASE sh.backend = "uint" -> Done(uint_bit_or(s, rhs))
      [] sh.backend = "slice" -> slice_bit_or(s, rhs)
      [] sh.backend = "simd" -> simd_bit_or(s, rhs, sh)
      [] sh.backend = "sparse" -> Done(sparse_bit_or(s, rhs))

bit_and(sh, s, rhs) ==
    CASE sh.backend = "uint" -> Done(uint_bit_and(s, rhs))
      [] sh.backend = "slice" -> slice_bit_and(s, rhs)
      [] sh.backend = "simd" -> simd_bit_and(s, rhs, sh)
      [] sh.backend = "sparse" -> Done(sparse_bit_and(s, rhs))

bit_andnot(sh, s, rhs) ==
    CASE sh.backend = "uint" -> Done(uint_bit_andnot(s, rhs, sh.elem_bits))
      [] sh.backend = "slice" -> slice_bit_andnot(s, rhs, sh.elem_bits)
      [] sh.backend = "simd" -> simd_bit_andnot(s, rhs, sh)
      [] sh.backend = "sparse" -> Done(sparse_bit_andnot(s, rhs, sh.elem_bits))

bit_xor(sh, s, rhs) ==
    CASE sh.backend = "uint" -> Done(uint_bit_xor(s, rhs))
      [] sh.backend = "slice" -> slice_bit_xor(s, rhs)
      [] sh.backend = "simd" -> simd_bit_xor(s, rhs, sh)
      [] sh.backend = "sparse" -> Done(sparse_bit_xor(s, rhs))

bit_not(sh, s) ==
    CASE sh.backend = "uint" -> Done(uint_bit_not(s, sh.elem_bits))
      [] sh.backend = "slice" -> Done(slice_bit_not(s, sh.elem_bits))
      [] sh.backend = "simd" -> Done(simd_bit_not(s, sh))
      [] sh.backend = "sparse" -> sparse_bit_not(s)

bit_mask(sh, s, rhs, mask) ==
    CASE sh.backend = "uint" -> Done(uint_bit_mask(s, rhs, mask, sh.elem_bits))
      [] sh.backend = "slice" -> slice_bit_mask(s, rhs, mask, sh.elem_bits)
      [] sh.backend = "simd" -> simd_bit_mask(s, rhs, mask, sh)
      [] sh.backend = "sparse" -> Done(sparse_bit_mask(s, rhs, mask, sh.elem_bits))

bit_count(sh, s) ==
    CASE sh.backend = "uint" -> uint_bit_count(s)
      [] sh.backend = "slice" -> slice_bit_count(s)
      [] sh.backend = "simd" -> simd_bit_count(s, sh)
      [] sh.backend = "sparse" -> sparse_bit_count(s)

(***************************************************************************)
(* fmt.rs: BitFmt.  The text written to the formatter is the sequence of   *)
(* its characters.                                                         *)
(***************************************************************************)
ALPHABET == <<"0", "1">>
UPPERHEX_ALPHABET ==
    <<"0", "1", "2", "3", "4", "5", "6", "7", "8", "9", "A", "B", "C", "D", "E", "F">>
LOWERHEX_ALPHABET ==
    <<"0", "1", "2", "3", "4", "5", "6", "7", "8", "9", "a", "b", "c", "d", "e", "f">>

\* `b as usize`, `b as u8`
AsInt(b) == IF b THEN 1 ELSE 0

\* `array[n]`, the arrays of the source counting from 0
At(array, n) == array[n + 1]

\* one turn of the loop of bitstring, and the turns after it
RECURSIVE bitstring_from(_, _, _, _)
bitstring_from(sh, this, i, first) ==
    IF ~(i < bit_len(sh, this)) THEN <<>>
    ELSE LET buf == << "_",
                       At(ALPHABET, AsInt(bit_test(sh, this, i + 0))),
                       At(ALPHABET, AsInt(bit_test(sh, this, i + 1))),
                       At(ALPHABET, AsInt(bit_test(sh, this, i + 2))),
                       At(ALPHABET, AsInt(bit_test(sh, this, i + 3))),
                       At(ALPHABET, AsInt(bit_test(sh, this, i + 4))),
                       At(ALPHABET, AsInt(bit_test(sh, this, i + 5))),
                       At(ALPHABET, AsInt(bit_test(sh, this, i + 6))),
                       At(ALPHABET, AsInt(bit_test(sh, this, i + 7))) >>
             written == SubSeq(buf, AsInt(first) + 1, 9)
         IN written \o bitstring_from(sh, this, i + 8, FALSE)

bitstring(sh, this) == bitstring_from(sh, this, 0, TRUE)

\* one turn of the loop of hexstring, and the turns after it
RECURSIVE hexstring_from(_, _, _, _)
hexstring_from(sh, this, alphabet, i) ==
    IF ~(i < bit_len(sh, this)) THEN <<>>
    ELSE LET byte == AsInt(bit_test(sh, this, i + 0)) * 2^7
                   + AsInt(bit_test(sh, this, i + 1)) * 2^6
                   + AsInt(bit_test(sh, this, i + 2)) * 2^5
                   + AsInt(bit_test(sh, this, i + 3)) * 2^4
                   + AsInt(bit_test(sh, this, i + 4)) * 2^3
                   + AsInt(bit_test(sh, this, i + 5)) * 2^2
                   + AsInt(bit_test(sh, this, i + 6)) * 2^1
                   + AsInt(bit_test(sh, this, i + 7)) * 2^0
             buf == << At(alphabet, byte \div 16), At(alphabet, byte % 16) >>
         IN buf \o hexstring_from(sh, this, alphabet, i + 8)

hexstring(sh, this, alphabet) == hexstring_from(sh, this, alphabet, 0)

\* `impl fmt::Display`, `fmt::Debug`, `fmt::UpperHex`, `fmt::LowerHex`
fmt_Display(sh, this) == bitstring(sh, this)
fmt_Debug(sh, this) == <<"\"">> \o hexstring(sh, this, UPPERHEX_ALPHABET) \o <<"\"">>
fmt_UpperHex(sh, this) == hexstring(sh, this, UPPERHEX_ALPHABET)
fmt_LowerHex(sh, this) == hexstring(sh, this, LOWERHEX_ALPHABET)

(***************************************************************************)
(* The containers a caller builds, and the arguments it passes.            *)
(***************************************************************************)
\* The instantiations explored: u8 and u32 (uint.rs), [u8] (slice.rs),
\* [[u32; 4]] (simd.rs), and maps to u8 and to u32 (stdty.rs).
Shapes ==
    { [backend |-> "uint", elem_bits |-> 8, elem_len |-> 1, bits_per_word |-> 8],
      [backend |-> "uint", elem_bits |-> 32, elem_len |-> 1, bits_per_word |-> 32],
      [backend |-> "slice", elem_bits |-> 8, elem_len |-> 1, bits_per_word |-> 8],
      [backend |-> "simd", elem_bits |-> 32, elem_len |-> 4, bits_per_word |-> 128],
      [backend |-> "sparse", elem_bits |-> 8, elem_len |-> 1, bits_per_word |-> 8],
      [backend |-> "sparse", elem_bits |-> 32, elem_len |-> 1, bits_per_word |-> 32] }

Fixed(sh) == sh.backend \in {"uint", "slice", "simd"}

\* The byte patterns 0x00, 0x21, 0x55 and 0xff of the crate's examples
Byte00 == {}
Byte21 == {0, 5}
Byte55 == {0, 2, 4, 6}
ByteFF == 0 .. 7

\* `[x; len]` with every byte of every element the pattern `byte`
Fill(sh, len, byte) ==
    CASE sh.backend = "uint" -> Repeat(byte, sh.elem_bits)
      [] sh.backend = "slice" -> [i \in 0 .. len - 1 |-> Repeat(byte, sh.elem_bits)]
      [] sh.backend = "simd" ->
            [i \in 0 .. len - 1 |-> Block(Repeat(byte, sh.elem_bits), sh)]

Lens(sh) == IF sh.backend = "uint" THEN {1} ELSE 0 .. MaxLen

\* The element count of a fixed container
ElemCount(sh, s) == IF sh.backend = "uint" THEN 1 ELSE slice_len(s)

\* The bit positions passed to the indexed operations of a fixed container
\* of B bits: the first and last bit of the container and the bits on either
\* side of the first element boundary and of the first block boundary.
FixedBits(sh, s) ==
    LET B == bit_len(sh, s)
    IN {0, sh.elem_bits - 1, sh.elem_bits, sh.bits_per_word - 1,
        sh.bits_per_word, B - 1} \cap (0 .. B - 1)

\* The bit positions passed to the sparse backend
SparseBits == {0, 1, 8, 1000000}

BitInputs(sh, s) == IF Fixed(sh) THEN FixedBits(sh, s) ELSE SparseBits

\* `bitset!(init; bits...)`: bit_set for each bit of the list in turn
RECURSIVE bitset(_, _, _)
bitset(sh, init, bits) ==
    IF bits = <<>> THEN init
    ELSE bitset(sh, bit_set(sh, init, Head(bits)), Tail(bits))

\* The maps passed as the other operand of a sparse operation: built with
\* bitset!, one of them holding a word that was set and reset again.
SparseOperands(sh) ==
    { EmptyMap,
      bitset(sh, EmptyMap, <<0>>),
      bitset(sh, EmptyMap, <<8>>),
      bitset(sh, EmptyMap, <<0, 1, 8>>),
      bit_reset(sh, bitset(sh, EmptyMap, <<0>>), 0) }

\* The containers passed as the other operand: of any length
Operands(sh) ==
    IF Fixed(sh)
    THEN {Fill(sh, len, byte) : len \in Lens(sh), byte \in {Byte55, ByteFF}}
    ELSE SparseOperands(sh)

OperandTable == [sh \in Shapes |-> Operands(sh)]

\* The containers a run starts from: zeroed, as in the tests; a single word
\* also from 0x21 repeated, as in the crate's example
Initial(sh) ==
    CASE sh.backend = "uint" -> {Fill(sh, 1, byte) : byte \in {Byte00, Byte21}}
      [] sh.backend \in {"slice", "simd"} -> {Fill(sh, len, Byte00) : len \in Lens(sh)}
      [] sh.backend = "sparse" -> {EmptyMap}

(***************************************************************************)
(* The state: one container `self` of shape `shape`, the last call made on *)
(* it, what the call returned, and whether it panicked.  The t_ variables  *)
(* are the locals of slice.rs's test_transmute.                            *)
(***************************************************************************)
\* What a call returned: nothing (no call yet, or a panic), `&mut Self`, a
\* bool or a usize
Nothing == [kind |-> "none"]
SelfRef == [kind |-> "self"]
Bool(b) == [kind |-> "bool", bool |-> b]
Usize(n) == [kind |-> "usize", usize |-> n]

Str(text) == [kind |-> "str", str |-> text]

TestIdle ==
    /\ t_pc = "idle"
    /\ t_i = 0
    /\ t_uint = <<>>
    /\ t_ubyte = <<>>

InitOf(shapes) ==
    /\ shape \in shapes
    /\ self \in Initial(shape)
    /\ last = "new"
    /\ ret = Nothing
    /\ panicked = FALSE
    /\ TestIdle

\* a fixed backend: a word, a flat array or a vector-shaped array
InitFixed == InitOf({sh \in Shapes : Fixed(sh)})

\* the sparse backend
InitSparse == InitOf({sh \in Shapes : ~Fixed(sh)})

\* A mutating call `op` that left `out` behind; it returns `&mut Self`
Mutate(op, out) ==
    /\ self' = out.self
    /\ panicked' = out.panic
    /\ last' = op
    /\ ret' = IF out.panic THEN Nothing ELSE SelfRef
    /\ UNCHANGED <<shape, test_vars>>

\* A reading call `op` that returned `value`
Read(op, value) ==
    /\ last' = op
    /\ ret' = value
    /\ UNCHANGED <<shape, self, panicked, test_vars>>

\* A reading call `op` that may panic
ReadOrPanic(op, out) ==
    /\ last' = op
    /\ panicked' = out.panic
    /\ ret' = IF out.panic THEN Nothing ELSE Bool(out.value)
    /\ UNCHANGED <<shape, self, test_vars>>

BitLen == ~panicked /\ Read("bit_len", Usize(bit_len(shape, self)))

BitInit ==
    /\ ~panicked
    /\ \E value \in BOOLEAN : Mutate("bit_init", bit_init(shape, self, value))

BitTest ==
    /\ ~panicked
    /\ \E bit \in BitInputs(shape, self) :
          Read("bit_test", Bool(bit_test(shape, self, bit)))

BitSet ==
    /\ ~panicked
    /\ \E bit \in BitInputs(shape, self) :
          Mutate("bit_set", Done(bit_set(shape, self, bit)))

BitReset ==
    /\ ~panicked
    /\ \E bit \in BitInputs(shape, self) :
          Mutate("bit_reset", Done(bit_reset(shape, self, bit)))

BitFlip ==
    /\ ~panicked
    /\ \E bit \in BitInputs(shape, self) :
          Mutate("bit_flip", Done(bit_flip(shape, self, bit)))

BitCond ==
    /\ ~panicked
    /\ \E bit \in BitInputs(shape, self), value \in BOOLEAN :
          Mutate("bit_cond", Done(bit_cond(shape, self, bit, value)))

BitAll == ~panicked /\ Read("bit_all", Bool(bit_all(shape, self)))

BitAny == ~panicked /\ Read("bit_any", Bool(bit_any(shape, self)))

BitNone == ~panicked /\ Read("bit_none", Bool(bit_none(shape, self)))

BitEq ==
    /\ ~panicked
    /\ \E rhs \in OperandTable[shape] : ReadOrPanic("bit_eq", bit_eq(shape, self, rhs))

BitDisjoint ==
    /\ ~panicked
    /\ \E rhs \in OperandTable[shape] :
          ReadOrPanic("bit_disjoint", bit_disjoint(shape, self, rhs))

BitSubset ==
    /\ ~panicked
    /\ \E rhs \in OperandTable[shape] :
          ReadOrPanic("bit_subset", bit_subset(shape, self, rhs))

BitSuperset ==
    /\ ~panicked
    /\ \E rhs \in OperandTable[shape] :
          ReadOrPanic("bit_superset", bit_superset(shape, self, rhs))

BitOr ==
    /\ ~panicked
    /\ \E rhs \in OperandTable[shape] : Mutate("bit_or", bit_or(shape, self, rhs))

BitAnd ==
    /\ ~panicked
    /\ \E rhs \in OperandTable[shape] : Mutate("bit_and", bit_and(shape, self, rhs))

BitAndnot ==
    /\ ~panicked
    /\ \E rhs \in OperandTable[shape] : Mutate("bit_andnot", bit_andnot(shape, self, rhs))

BitXor ==
    /\ ~panicked
    /\ \E rhs \in OperandTable[shape] : Mutate("bit_xor", bit_xor(shape, self, rhs))

BitNot == ~panicked /\ Mutate("bit_not", bit_not(shape, self))

BitMask ==
    /\ ~panicked
    /\ \E rhs \in OperandTable[shape], mask \in OperandTable[shape] :
          Mutate("bit_mask", bit_mask(shape, self, rhs, mask))

BitCount == ~panicked /\ Read("bit_count", Usize(bit_count(shape, self)))

Next ==
    \/ BitLen \/ BitInit \/ BitTest \/ BitSet \/ BitReset \/ BitFlip \/ BitCond
    \/ BitAll \/ BitAny \/ BitNone
    \/ BitEq \/ BitDisjoint \/ BitSubset \/ BitSuperset
    \/ BitOr \/ BitAnd \/ BitAndnot \/ BitXor \/ BitNot \/ BitMask
    \/ BitCount

Spec == InitFixed /\ [][Next]_vars

SpecSparse == InitSparse /\ [][Next]_vars

\* Formatting a fixed container through bit_fmt(): the text it writes
Display == ~panicked /\ Read("Display", Str(fmt_Display(shape, self)))
Debug == ~panicked /\ Read("Debug", Str(fmt_Debug(shape, self)))
UpperHex == ~panicked /\ Read("UpperHex", Str(fmt_UpperHex(shape, self)))
LowerHex == ~panicked /\ Read("LowerHex", Str(fmt_LowerHex(shape, self)))

\* The single-bit calls and the formatting of a fixed container
NextBits ==
    \/ BitLen \/ BitTest \/ BitSet \/ BitReset \/ BitFlip \/ BitCond
    \/ Display \/ Debug \/ UpperHex \/ LowerHex

SpecBits == InitFixed /\ [][NextBits]_vars

(***************************************************************************)
(* slice.rs: test_transmute.                                               *)
(*   for i in 0..32 {                                                      *)
(*       let uint = bitset!([0u32; 1]; i);                                 *)
(*       let ubyte = bitset!([0u8; 4]; i);                                 *)
(*       assert_eq!(uint[0], u32::from_ne_bytes(ubyte));                   *)
(*   }                                                                     *)
(***************************************************************************)
SliceU32 == [backend |-> "slice", elem_bits |-> 32, elem_len |-> 1, bits_per_word |-> 32]
SliceU8 == [backend |-> "slice", elem_bits |-> 8, elem_len |-> 1, bits_per_word |-> 8]

\* `u32::from_ne_bytes(bytes)` on a little-endian target (the test's note
\* restricts it to one): byte k holds bits 8k .. 8k+7 of the value
from_ne_bytes(bytes) ==
    {n \in 0 .. 31 : (n % 8) \in bytes[n \div 8]}

InitTransmute ==
    /\ shape = SliceU8
    /\ self = Fill(SliceU8, 0, Byte00)
    /\ last = "new"
    /\ ret = Nothing
    /\ panicked = FALSE
    /\ t_pc = "for"
    /\ t_i = 0
    /\ t_uint = <<>>
    /\ t_ubyte = <<>>

\* `for i in 0..32`: the next i, or the end of the range
TransmuteFor ==
    /\ t_pc = "for"
    /\ t_pc' = IF t_i < 32 THEN "uint" ELSE "passed"
    /\ UNCHANGED <<t_i, t_uint, t_ubyte, bitset_vars>>

TransmuteUint ==
    /\ t_pc = "uint"
    /\ t_uint' = bitset(SliceU32, Fill(SliceU32, 1, Byte00), <<t_i>>)
    /\ t_pc' = "ubyte"
    /\ UNCHANGED <<t_i, t_ubyte, bitset_vars>>

TransmuteUbyte ==
    /\ t_pc = "ubyte"
    /\ t_ubyte' = bitset(SliceU8, Fill(SliceU8, 4, Byte00), <<t_i>>)
    /\ t_pc' = "assert_eq"
    /\ UNCHANGED <<t_i, t_uint, bitset_vars>>

TransmuteAssert ==
    /\ t_pc = "assert_eq"
    /\ IF t_uint[0] = from_ne_bytes(t_ubyte)
       THEN t_pc' = "for" /\ t_i' = t_i + 1
       ELSE t_pc' = "failed" /\ t_i' = t_i
    /\ UNCHANGED <<t_uint, t_ubyte, bitset_vars>>

NextTransmute ==
    TransmuteFor \/ TransmuteUint \/ TransmuteUbyte \/ TransmuteAssert

SpecTransmute == InitTransmute /\ [][NextTransmute]_vars

(***************************************************************************)
(* Properties.                                                             *)
(***************************************************************************)
\* Every bit position of a fixed container
Positions(sh, s) == 0 .. bit_len(sh, s) - 1

\* The positions at which bit_test is true
Bits(sh, s) == {i \in Positions(sh, s) : bit_test(sh, s, i)}

\* C1: on a fixed backend, whenever bit_len has returned L (a reading call,
\* enabled in every state: every value self takes, it has after a bit_len),
\* for every position i < L bit_set(i) then bit_test(i) is true, bit_reset(i)
\* then bit_test(i) is false, and two bit_flip(i) give back the container.
C1_SetResetFlip ==
    (Fixed(shape) /\ last = "bit_len") =>
        \A i \in 0 .. ret.usize - 1 :
            /\ bit_test(shape, bit_set(shape, self, i), i)
            /\ ~bit_test(shape, bit_reset(shape, self, i), i)
            /\ bit_flip(shape, bit_flip(shape, self, i), i) = self

\* C1 happens: a two-block vector-shaped container that holds bit 128 (set by
\* an indexed call) and not bit 0, measured by bit_len
C1_Witness ==
    /\ shape.backend = "simd"
    /\ last = "bit_len"
    /\ ret.usize = 256
    /\ bit_test(shape, self, 128)
    /\ ~bit_test(shape, self, 0)

\* C2: on a fixed backend, whenever bit_count returns, it returns the number
\* of positions i < bit_len at which bit_test(i) is true.
C2_CountIsNumberOfSetBits ==
    (Fixed(shape) /\ last = "bit_count") =>
        ret.usize = Cardinality(Bits(shape, self))

\* C2 happens: bit_count returned 3 on a two-block vector-shaped container
\* with bits in both blocks
C2_Witness ==
    /\ shape.backend = "simd"
    /\ slice_len(self) = 2
    /\ last = "bit_count"
    /\ ret.usize = 3
    /\ bit_test(shape, self, 31)
    /\ bit_test(shape, self, 255)

\* C3, as claimed: on every fixed backend and for every length, zero elements
\* included, once bit_init(true) has returned both bit_all and bit_any are true.
C3_Original ==
    (Fixed(shape) /\ last = "bit_init" /\ self = bit_init(shape, self, TRUE).self) =>
        bit_all(shape, self) /\ bit_any(shape, self)

\* C3, amended: on every fixed backend, once bit_init(true) has returned,
\* bit_all is true, and bit_any is true exactly when the container has at
\* least one element (on zero elements bit_any is false).
C3_InitTrue ==
    (Fixed(shape) /\ last = "bit_init" /\ self = bit_init(shape, self, TRUE).self) =>
        /\ bit_all(shape, self)
        /\ bit_any(shape, self) <=> ElemCount(shape, self) > 0

\* C3 happens: bit_init(true) has returned on a two-element flat array
C3_Witness ==
    /\ shape.backend = "slice"
    /\ slice_len(self) = 2
    /\ last = "bit_init"
    /\ bit_test(shape, self, 15)

\* The call panicked and left self as it was
Fails(out, s) == out.panic /\ out.self = s

\* C4: on the flat-array and vector-shaped backends, bit_eq, bit_disjoint,
\* bit_subset, bit_or, bit_and, bit_andnot and bit_xor panic when rhs has
\* another element count than self, and bit_mask when rhs or mask has; self is
\* then as it was before the call.
C4_LengthMismatchPanics ==
    shape.backend \in {"slice", "simd"} =>
        /\ \A rhs \in OperandTable[shape] :
              slice_len(rhs) # slice_len(self) =>
                  /\ Fails(bit_eq(shape, self, rhs), self)
                  /\ Fails(bit_disjoint(shape, self, rhs), self)
                  /\ Fails(bit_subset(shape, self, rhs), self)
                  /\ Fails(bit_or(shape, self, rhs), self)
                  /\ Fails(bit_and(shape, self, rhs), self)
                  /\ Fails(bit_andnot(shape, self, rhs), self)
                  /\ Fails(bit_xor(shape, self, rhs), self)
        /\ \A rhs \in OperandTable[shape], mask \in OperandTable[shape] :
              (slice_len(rhs) # slice_len(self) \/ slice_len(mask) # slice_len(self)) =>
                  Fails(bit_mask(shape, self, rhs, mask), self)

\* C4 happens: bit_mask panicked on a vector-shaped container holding bits
C4_Witness ==
    /\ shape.backend = "simd"
    /\ panicked
    /\ last = "bit_mask"
    /\ bit_any(shape, self)

\* The operands of the length of self: those the calls are given, and two
\* whose elements differ from one another
OperandsLike(sh, s) ==
    LET n == ElemCount(sh, s)
    IN {rhs \in OperandTable[sh] : ElemCount(sh, rhs) = n}
       \cup (IF n = 0 THEN {}
             ELSE {bit_set(sh, Fill(sh, n, Byte00), bit_len(sh, s) - 1),
                   bit_reset(sh, Fill(sh, n, Byte21), 0)})

\* C5: on a fixed backend, whenever bit_len has returned L, for operands of
\* the length of self and at every position i < L, bit_test(i) is a_i \/ b_i after bit_or, a_i /\ b_i
\* after bit_and, a_i /\ ~b_i after bit_andnot, a_i # b_i after bit_xor, ~a_i
\* after bit_not, and after bit_mask(rhs, mask) b_i where mask_i and a_i
\* elsewhere; and bit_or, bit_and, bit_xor with the same b and then bit_not
\* leave every bit set.
C5_PointwiseBoolean ==
    (Fixed(shape) /\ last = "bit_len") =>
        LET all == 0 .. ret.usize - 1
            a == Bits(shape, self)
        IN /\ Bits(shape, bit_not(shape, self).self) = all \ a
           /\ \A rhs \in OperandsLike(shape, self) :
                LET b == Bits(shape, rhs)
                    chain == bit_not(shape,
                                bit_xor(shape,
                                    bit_and(shape,
                                        bit_or(shape, self, rhs).self,
                                        rhs).self,
                                    rhs).self).self
                IN /\ Bits(shape, bit_or(shape, self, rhs).self) = a \cup b
                   /\ Bits(shape, bit_and(shape, self, rhs).self) = a \cap b
                   /\ Bits(shape, bit_andnot(shape, self, rhs).self) = a \ b
                   /\ Bits(shape, bit_xor(shape, self, rhs).self) = (a \ b) \cup (b \ a)
                   /\ Bits(shape, chain) = all
                   /\ \A mask \in OperandsLike(shape, self) :
                        LET m == Bits(shape, mask)
                        IN Bits(shape, bit_mask(shape, self, rhs, mask).self)
                              = (b \cap m) \cup (a \ m)

\* C5 happens: a 32-bit word that is 0x21212121 with 0x55555555 combined into
\* it by bit_xor (bits 2, 4, 5 and 6 of each byte), measured by bit_len
C5_Witness ==
    /\ shape.backend = "uint"
    /\ last = "bit_len"
    /\ ret.usize = 32
    /\ self = Repeat({2, 4, 5, 6}, 32)

\* C6: in test_transmute, for every i in 0..32, when the assertion is reached
\* the word of the [u32; 1] with bit i set is `1 << i` and equals the
\* little-endian combination of the bytes of the [u8; 4] with bit i set; the
\* assertion never fails.
C6_SameMemory ==
    /\ t_pc # "failed"
    /\ t_pc = "assert_eq" =>
          /\ t_uint[0] = from_ne_bytes(t_ubyte)
          /\ t_uint[0] = Shl1(t_i)

\* C6 happens: the assertion is reached for i = 31, the top bit of byte 3
C6_Witness ==
    /\ t_pc = "assert_eq"
    /\ t_i = 31
    /\ t_ubyte[3] = {7}

\* A vector-shaped container read as a flat array of its lanes:
\* flat index = block * $elem_len + lane
Flatten(s, sh) ==
    [j \in 0 .. slice_len(s) * sh.elem_len - 1 |->
        s[j \div sh.elem_len][j % sh.elem_len]]

\* The flat-array instantiation for the lane type of sh
FlatShape(sh) ==
    [backend |-> "slice", elem_bits |-> sh.elem_bits, elem_len |-> 1,
     bits_per_word |-> sh.elem_bits]

\* A call on the vector-shaped container and the same call on the flat array
\* end alike: both panic, or both return, with equal containers and values
SameOutcome(o, f, sh) ==
    /\ o.panic = f.panic
    /\ Flatten(o.self, sh) = f.self
    /\ (~o.panic /\ "value" \in DOMAIN o) => (o.value = f.value)

\* C7: on the vector-shaped backend, whenever bit_len has returned L, with the
\* container read as the flat array of its lanes: for every i < L the block,
\* lane and bit of i are the word and bit the flat array resolves i to, and
\* every call of the contract ends alike on both and leaves them equal.
C7_SimdIsFlat ==
    (shape.backend = "simd" /\ last = "bit_len") =>
        LET fsh == FlatShape(shape)
            flat == Flatten(self, shape)
            lane_bits == shape.bits_per_word \div shape.elem_len
        IN /\ bit_len(fsh, flat) = ret.usize
           /\ \A i \in 0 .. ret.usize - 1 :
                /\ simd_index(i, shape) = i \div shape.bits_per_word
                /\ simd_lane(i, shape) = (i \div lane_bits) % shape.elem_len
                /\ simd_index(i, shape) * shape.elem_len + simd_lane(i, shape)
                      = i \div fsh.bits_per_word
                /\ simd_mask(i, shape) = Shl1(i % fsh.bits_per_word)
                /\ bit_test(shape, self, i) = bit_test(fsh, flat, i)
                /\ Flatten(bit_set(shape, self, i), shape) = bit_set(fsh, flat, i)
                /\ Flatten(bit_reset(shape, self, i), shape) = bit_reset(fsh, flat, i)
                /\ Flatten(bit_flip(shape, self, i), shape) = bit_flip(fsh, flat, i)
                /\ \A value \in BOOLEAN :
                      Flatten(bit_cond(shape, self, i, value), shape)
                          = bit_cond(fsh, flat, i, value)
           /\ \A value \in BOOLEAN :
                SameOutcome(bit_init(shape, self, value), bit_init(fsh, flat, value), shape)
           /\ bit_all(shape, self) = bit_all(fsh, flat)
           /\ bit_any(shape, self) = bit_any(fsh, flat)
           /\ bit_none(shape, self) = bit_none(fsh, flat)
           /\ bit_count(shape, self) = bit_count(fsh, flat)
           /\ SameOutcome(bit_not(shape, self), bit_not(fsh, flat), shape)
           /\ \A rhs \in OperandTable[shape] :
                LET frhs == Flatten(rhs, shape)
                IN /\ SameOutcome(bit_eq(shape, self, rhs), bit_eq(fsh, flat, frhs), shape)
                   /\ SameOutcome(bit_disjoint(shape, self, rhs),
                                  bit_disjoint(fsh, flat, frhs), shape)
                   /\ SameOutcome(bit_subset(shape, self, rhs),
                                  bit_subset(fsh, flat, frhs), shape)
                   /\ SameOutcome(bit_superset(shape, self, rhs),
                                  bit_superset(fsh, flat, frhs), shape)
                   /\ SameOutcome(bit_or(shape, self, rhs), bit_or(fsh, flat, frhs), shape)
                   /\ SameOutcome(bit_and(shape, self, rhs), bit_and(fsh, flat, frhs), shape)
                   /\ SameOutcome(bit_andnot(shape, self, rhs),
                                  bit_andnot(fsh, flat, frhs), shape)
                   /\ SameOutcome(bit_xor(shape, self, rhs), bit_xor(fsh, flat, frhs), shape)
                   /\ \A mask \in OperandTable[shape] :
                        SameOutcome(bit_mask(shape, self, rhs, mask),
                                    bit_mask(fsh, flat, frhs, Flatten(mask, shape)), shape)

\* C7 happens: a two-block vector-shaped container holding bit 255 (block 1,
\* lane 3) and bit 32 (block 0, lane 1), measured by bit_len
C7_Witness ==
    /\ shape.backend = "simd"
    /\ last = "bit_len"
    /\ ret.usize = 256
    /\ bit_test(shape, self, 255)
    /\ bit_test(shape, self, 32)
    /\ self[1][3] = {31}

\* The positions looked at on a sparse container: every position a call is
\* given, with the positions around them
Probe == (0 .. 33) \cup (999999 .. 1000001)

\* The positions of Probe that bit_test reports set
SparseSet(sh, s) == {j \in Probe : bit_test(sh, s, j)}

\* C8: on the sparse backend the empty mapping holds no position; in every
\* reachable mapping, for every position i a call is given and every position
\* j, bit_set(i) makes j set iff j = i or j was set, bit_reset(i) leaves j set
\* iff j # i and j was set, bit_flip(i) changes j iff j = i; bit_count is the
\* number of set positions, bit_any is true iff there is one, bit_all is
\* false; after only bit_set(1000000): count 1, test(1000000), not test(0),
\* any, not all.
C8_SparseSetSemantics ==
    ~Fixed(shape) =>
        /\ SparseSet(shape, EmptyMap) = {}
        /\ \A i \in SparseBits : \A j \in Probe :
              /\ bit_test(shape, bit_set(shape, self, i), j)
                    = (j = i \/ bit_test(shape, self, j))
              /\ bit_test(shape, bit_reset(shape, self, i), j)
                    = (j # i /\ bit_test(shape, self, j))
              /\ bit_test(shape, bit_flip(shape, self, i), j)
                    = (bit_test(shape, self, j) # (j = i))
        /\ bit_count(shape, self) = Cardinality(SparseSet(shape, self))
        /\ bit_any(shape, self) = (SparseSet(shape, self) # {})
        /\ ~bit_all(shape, self)
        /\ LET s == bit_set(shape, EmptyMap, 1000000)
           IN /\ bit_count(shape, s) = 1
              /\ bit_test(shape, s, 1000000)
              /\ ~bit_test(shape, s, 0)
              /\ bit_any(shape, s)
              /\ ~bit_all(shape, s)

\* C8 happens: a 32-bit-word mapping that had positions 0, 1 and 1000000 set
\* and position 0 reset again, so that one stored word keeps position 1
C8_Witness ==
    /\ shape.backend = "sparse"
    /\ shape.elem_bits = 32
    /\ last = "bit_reset"
    /\ SparseSet(shape, self) = {1, 1000000}
    /\ bit_count(shape, self) = 2

\* C9 as stated: on the sparse backend with words of w bits, for every
\* position i, bit_test, bit_set, bit_reset and bit_flip act on bit i % w of
\* the word stored under key i / w (an absent key reading as no bit set).
C9_Original ==
    ~Fixed(shape) =>
        LET w == shape.elem_bits
        IN \A i \in SparseBits :
              LET key == i \div w
                  m == or_default(self, key)
              IN /\ bit_test(shape, self, i) = ((i % w) \in get_or(self, key, Default))
                 /\ bit_set(shape, self, i)
                       = [m EXCEPT ![key] = WordOr(@, Shl1(i % w))]
                 /\ bit_reset(shape, self, i)
                       = IF key \in DOMAIN self
                         THEN [self EXCEPT ![key] = @ \ Shl1(i % w)]
                         ELSE self
                 /\ bit_flip(shape, self, i)
                       = [m EXCEPT ![key] = WordXor(@, Shl1(i % w))]

\* C10 as stated: on the sparse backend, for every other mapping rhs and every
\* position i, after bit_xor(rhs) position i is set iff exactly one of self
\* and rhs had it; bit_xor with a copy of self leaves no bit set.
C10_Original ==
    ~Fixed(shape) =>
        /\ \A rhs \in OperandTable[shape] : \A i \in Probe :
              bit_test(shape, bit_xor(shape, self, rhs).self, i)
                  = (bit_test(shape, self, i) # bit_test(shape, rhs, i))
        /\ bit_none(shape, bit_xor(shape, self, self).self)

\* C11 as stated: on the sparse backend, for every other mapping rhs and every
\* position i, after bit_and(rhs) position i is set iff self had it and rhs
\* has it, also where the key of i is absent from rhs.
C11_Original ==
    ~Fixed(shape) =>
        \A rhs \in OperandTable[shape] : \A i \in Probe :
            bit_test(shape, bit_and(shape, self, rhs).self, i)
                = (bit_test(shape, self, i) /\ bit_test(shape, rhs, i))

\* C12 as stated: on the sparse backend no call, bit_init included, removes a
\* key from the mapping.
C12_Original ==
    [][~Fixed(shape) => (DOMAIN self \subseteq DOMAIN self')]_vars

\* C12: on the sparse backend every call but bit_init keeps every key of the
\* mapping, and a bit_init that returns leaves the mapping without keys.
C12_NeverShrinks ==
    [][~Fixed(shape) =>
          /\ (last' # "bit_init") => (DOMAIN self \subseteq DOMAIN self')
          /\ (last' = "bit_init" /\ ~panicked') => (DOMAIN self' = {})]_vars

\* C12 happens: position 0 was set and reset again, and its all-zero word is
\* still stored
C12_Witness ==
    /\ shape.backend = "sparse"
    /\ last = "bit_reset"
    /\ DOMAIN self = {0}
    /\ self[0] = Zero

\* C13: on the sparse backend bit_init(true) and bit_not() panic and leave the
\* mapping as it was; bit_init(false) returns and leaves a mapping without
\* entries, in which no position tests set and the count is 0.  In the run:
\* bit_not always ends in a panic, and a bit_init that returned left no entry.
C13_SparseUnsupported ==
    ~Fixed(shape) =>
        /\ Fails(bit_init(shape, self, TRUE), self)
        /\ Fails(bit_not(shape, self), self)
        /\ LET out == bit_init(shape, self, FALSE)
           IN /\ ~out.panic
              /\ DOMAIN out.self = {}
              /\ SparseSet(shape, out.self) = {}
              /\ bit_count(shape, out.self) = 0
        /\ (last = "bit_not") => panicked
        /\ (last = "bit_init") => (panicked \/ DOMAIN self = {})

\* C13 happens: bit_not panicked on a mapping holding positions 0 and 1000000
C13_Witness ==
    /\ shape.backend = "sparse"
    /\ last = "bit_not"
    /\ panicked
    /\ SparseSet(shape, self) = {0, 1000000}

\* a and b hold the same word under every key, an absent key read as the
\* all-zero word
SameWords(a, b) ==
    \A key \in DOMAIN a \cup DOMAIN b : get_or(a, key, Zero) = get_or(b, key, Zero)

\* C14: on the sparse backend, for every other mapping rhs, bit_eq(rhs) is
\* true iff self and rhs hold the same word under every key with an absent key
\* read as all-zero, and bit_eq gives the same answer with the arguments
\* exchanged; a mapping with position i set and reset again equals the mapping
\* it was before.
C14_SparseEq ==
    ~Fixed(shape) =>
        /\ \A rhs \in OperandTable[shape] :
              /\ bit_eq(shape, self, rhs).value = SameWords(self, rhs)
              /\ bit_eq(shape, self, rhs).value = bit_eq(shape, rhs, self).value
        /\ \A i \in SparseBits :
              ~bit_test(shape, self, i) =>
                  LET t == bit_reset(shape, bit_set(shape, self, i), i)
                  IN /\ bit_eq(shape, t, self).value
                     /\ bit_eq(shape, self, t).value

\* C14 happens: bit_eq returned true on a mapping that stores an all-zero word
\* under key 0, compared with a mapping without that key
C14_Witness ==
    /\ shape.backend = "sparse"
    /\ last = "bit_eq"
    /\ ret = Bool(TRUE)
    /\ DOMAIN self = {0}
    /\ self[0] = Zero

\* C17: on the sparse backend, for every position i whose key is absent,
\* bit_reset(i) and bit_cond(i, false) leave the mapping as it was, and
\* bit_set(i) and bit_flip(i) add the key of i and no other and keep every
\* stored word; bit_test changes nothing: after any bit_test the mapping is
\* the one before it.
C17_SparseFrame ==
    /\ [](~Fixed(shape) =>
            \A i \in SparseBits :
                LET key == sparse_index(i, shape.elem_bits)
                IN key \notin DOMAIN self =>
                      /\ bit_reset(shape, self, i) = self
                      /\ bit_cond(shape, self, i, FALSE) = self
                      /\ \A op \in {"bit_set", "bit_flip"} :
                            LET t == IF op = "bit_set" THEN bit_set(shape, self, i)
                                     ELSE bit_flip(shape, self, i)
                            IN /\ DOMAIN t = DOMAIN self \cup {key}
                               /\ \A k \in DOMAIN self : t[k] = self[k])
    /\ [][(~Fixed(shape) /\ last' = "bit_test") => (self' = self)]_vars

\* C17 happens: on a byte mapping holding only position 0, a bit_reset of a
\* position under another key left key 0 alone
C17_Witness ==
    /\ shape.backend = "sparse"
    /\ shape.elem_bits = 8
    /\ last = "bit_reset"
    /\ DOMAIN self = {0}
    /\ bit_test(shape, self, 0)

\* The numeric value of byte k of the bit domain, position 8k being its
\* least significant bit
ByteValue(sh, s, k) ==
    LET bits == {b \in 0 .. 7 : bit_test(sh, s, 8 * k + b)}
        RECURSIVE sum(_)
        sum(rest) == IF rest = {} THEN 0
                     ELSE LET b == CHOOSE x \in rest : TRUE
                          IN 2^b + sum(rest \ {b})
    IN sum(bits)

\* The hexadecimal text C15 describes: two digits for each byte in ascending
\* order, the high nibble first
HexAsClaimed(sh, s, alphabet) ==
    [n \in 1 .. 2 * (bit_len(sh, s) \div 8) |->
        LET value == ByteValue(sh, s, (n - 1) \div 2)
        IN IF n % 2 = 1 THEN At(alphabet, value \div 16)
           ELSE At(alphabet, value % 16)]

\* C15 as stated: the hexadecimal text of a fixed container has 2 * bit_len / 8
\* digits and is, for each byte k in ascending order, the two digits of the
\* value of the byte whose least significant bit is position 8k, high nibble
\* first; an 8-bit word holding positions 2 and 5 is written "24".
C15_Original ==
    (Fixed(shape) /\ last \in {"UpperHex", "LowerHex"}) =>
        LET alphabet == IF last = "UpperHex" THEN UPPERHEX_ALPHABET
                        ELSE LOWERHEX_ALPHABET
        IN /\ Len(ret.str) = 2 * (bit_len(shape, self) \div 8)
           /\ ret.str = HexAsClaimed(shape, self, alphabet)
           /\ (shape.backend = "uint" /\ shape.elem_bits = 8 /\ self = {2, 5})
                 => (ret.str = <<"2", "4">>)

\* The binary text C16 describes: the chunk of byte k in ascending order, "_"
\* before every chunk but the first, position 8k+7 first within the chunk
BinAsClaimed(sh, s) ==
    LET chunks == (bit_len(sh, s) + 7) \div 8
        chars == IF chunks = 0 THEN 0 ELSE 9 * chunks - 1
    IN [n \in 1 .. chars |->
            IF n <= 8 THEN At(ALPHABET, AsInt(bit_test(sh, s, 7 - (n - 1))))
            ELSE LET k == 1 + ((n - 9) \div 9)
                     r == (n - 9) % 9
                 IN IF r = 0 THEN "_"
                    ELSE At(ALPHABET, AsInt(bit_test(sh, s, 8 * k + 7 - (r - 1))))]

\* C16 as stated: the binary text of a fixed container is ceil(bit_len / 8)
\* chunks of 8 characters "0"/"1" in ascending position order, one "_" before
\* every chunk but the first, and in the chunk of positions 8k..8k+7 position
\* 8k+7 is printed first.
C16_Original ==
    (Fixed(shape) /\ last = "Display") => (ret.str = BinAsClaimed(shape, self))

\* The words of a fixed container in position order: the word itself, the
\* elements of the array, the lanes of the blocks
Words(sh, s) ==
    CASE sh.backend = "uint" -> [x \in {0} |-> s]
      [] sh.backend = "slice" -> s
      [] sh.backend = "simd" -> Flatten(s, sh)

\* t is s but for bit i: the same words, but for the one bit of the one word
\* (or lane) that holds position i
OnlyBitMayDiffer(sh, s, t, i) ==
    LET a == Words(sh, s)
        b == Words(sh, t)
        x == i \div sh.elem_bits
    IN /\ DOMAIN b = DOMAIN a
       /\ \A y \in DOMAIN a : y # x => b[y] = a[y]
       /\ b[x] \ {i % sh.elem_bits} = a[x] \ {i % sh.elem_bits}

\* The results of the four single-bit calls at position i
SingleBitCalls(sh, s, i) ==
    { bit_set(sh, s, i), bit_reset(sh, s, i), bit_flip(sh, s, i),
      bit_cond(sh, s, i, TRUE), bit_cond(sh, s, i, FALSE) }

\* C18: on every fixed backend, whenever bit_len has returned L: for every
\* position i < L, each of bit_set(i), bit_reset(i), bit_flip(i) and
\* bit_cond(i, v) keeps bit_len, changes no word but at most the one bit of
\* the one word (or lane) of i, and keeps bit_test(j) for the positions j next
\* to i and the positions j at the ends of the words and blocks; for the
\* positions i at the ends of the words and blocks it keeps bit_test(j) for
\* every j # i; bit_cond(i, true) is bit_set(i), bit_cond(i, false) is
\* bit_reset(i).
C18_SingleBitFrame ==
    (Fixed(shape) /\ last = "bit_len") =>
        LET L == ret.usize
            ends == FixedBits(shape, self)
        IN /\ \A i \in 0 .. L - 1 :
                /\ bit_cond(shape, self, i, TRUE) = bit_set(shape, self, i)
                /\ bit_cond(shape, self, i, FALSE) = bit_reset(shape, self, i)
                /\ \A t \in SingleBitCalls(shape, self, i) :
                      /\ bit_len(shape, t) = L
                      /\ OnlyBitMayDiffer(shape, self, t, i)
                      /\ \A j \in (ends \cup ({i - 1, i + 1} \cap (0 .. L - 1))) \ {i} :
                            bit_test(shape, t, j) = bit_test(shape, self, j)
           /\ \A i \in ends : \A t \in SingleBitCalls(shape, self, i) :
                \A j \in (0 .. L - 1) \ {i} :
                    bit_test(shape, t, j) = bit_test(shape, self, j)

\* C18 happens: a two-block vector-shaped container holding positions 127 and
\* 128, the neighbours across the block boundary, measured by bit_len
C18_Witness ==
    /\ shape.backend = "simd"
    /\ last = "bit_len"
    /\ ret.usize = 256
    /\ bit_test(shape, self, 127)
    /\ bit_test(shape, self, 128)
    /\ ~bit_test(shape, self, 0)

====
